---- MODULE Spec2Model ----
(***************************************************************************)
(* A model of pyfseconomy: the greedy plane loader (utils.py), the         *)
(* aircraft capacity computation (aircraft.py) and the airport radius      *)
(* search with its bounding-box pre-filter (airports.py, utils.py).        *)
(*                                                                         *)
(* Real numbers (kilograms) are records [w, n] standing for w + n/10^9,    *)
(* with 0 <= n < 10^9, so that the fuel density 2.687344961 kg/gal is      *)
(* exact.  Value densities are exact fractions [num, den].  Angles are in  *)
(* microdegrees and geodesic distances in metres.                          *)
(***************************************************************************)
EXTENDS Integers, Sequences, FiniteSets, TLC

VARIABLES
  pc,                 \* position of the modelled call
  call,               \* arguments of plane_loader
  starting_payload,   \* plane_loader locals
  starting_pax,
  assignment_values,  \* the ranking: sequence of [Id, value]
  idx,                \* position of the for loop of load_assignments
  assignment_ids,     \* load_assignments locals
  total_value,
  remaining_payload,
  remaining_pax,
  raised,             \* the exception that ended the call, or None
  aircraft,           \* the Aircraft instance of the capacity queries
  max_pax_result,     \* last result of get_max_pax, or None
  capacity,           \* results of get_pax_cargo_for_fuel, by fuel percent
  query,              \* arguments of get_airports_within
  box,                \* result of bounding_coordinates
  locations,          \* the pre-filtered candidates still to visit
  icao_list           \* the rows appended to the result

loaderVars == <<call, starting_payload, starting_pax, assignment_values, idx,
                assignment_ids, total_value, remaining_payload, remaining_pax,
                raised>>
aircraftVars == <<aircraft, max_pax_result, capacity>>
airportVars == <<query, box, locations, icao_list>>
vars == <<pc, loaderVars, aircraftVars, airportVars>>

\* Python's None, and a value that may be None
None == <<>>
Some(x) == <<x>>
Unbound == <<>>
NoError == "None"

(***************************************************************************)
(* Bounds of the model.                                                    *)
(***************************************************************************)
MaxJobs == 2

(***************************************************************************)
(* Program constants.                                                      *)
(***************************************************************************)
PAX_WEIGHT_KG == 77
\* FUEL_KG_PER_GAL = 2.687344961 = 2 + 687/10^3 + 344961/10^9
FUEL_KG_PER_GAL_UNITS == 2
FUEL_KG_PER_GAL_MILLIS == 687
FUEL_KG_PER_GAL_NANOS == 344961

VIP == "VIP"
TRIP_ONLY == "Trip-Only"
ALL_IN == "All-In"
TripTypes == {VIP, TRIP_ONLY, ALL_IN}

(***************************************************************************)
(* Exact arithmetic.                                                       *)
(***************************************************************************)
NanosPerUnit == 1000 * 1000 * 1000

Real(w, n) == [w |-> w, n |-> n]
RealOfInt(i) == Real(i, 0)
\* r - i for an integer i
RealMinusInt(r, i) == Real(r.w - i, r.n)
\* i - r for an integer i
IntMinusReal(i, r) == IF r.n = 0 THEN Real(i - r.w, 0)
                      ELSE Real(i - r.w - 1, NanosPerUnit - r.n)
RealLeq(a, b) == a.w < b.w \/ (a.w = b.w /\ a.n <= b.n)
\* i > r for an integer i
IntGreater(i, r) == i > r.w
\* floor and truncation (Python's int()) of r / d, d a positive integer
FloorDiv(r, d) == r.w \div d
TruncDiv(r, d) == IF r.w >= 0 THEN r.w \div d
                  ELSE LET m == IntMinusReal(0, r) IN -(m.w \div d)

Min(a, b) == IF a <= b THEN a ELSE b
Max(a, b) == IF a >= b THEN a ELSE b

SeqSum(s, F(_)) ==
  LET RECURSIVE Go(_)
      Go(i) == IF i = 0 THEN 0 ELSE F(s[i]) + Go(i - 1)
  IN Go(Len(s))

(***************************************************************************)
(* aircraft.py: Aircraft                                                   *)
(***************************************************************************)
Aircraft(mtow, seats, crew, empty_weight, fuel_total) ==
  [mtow |-> mtow, seats |-> seats, crew |-> crew,
   empty_weight |-> empty_weight, fuel_total |-> fuel_total]

get_max_pax(self) == self.seats - self.crew - 1

\* gallons * FUEL_KG_PER_GAL for a whole number of gallons
FuelWeight(gallons) ==
  LET millis == gallons * FUEL_KG_PER_GAL_MILLIS
      nanos == (millis % 1000) * (1000 * 1000) + gallons * FUEL_KG_PER_GAL_NANOS
  IN Real(gallons * FUEL_KG_PER_GAL_UNITS + (millis \div 1000)
            + (nanos \div NanosPerUnit),
          nanos % NanosPerUnit)

\* the payload with the fuel weight added instead of subtracted
AvailablePayloadFuelAdded(self, fuel_percent) ==
  LET fuel_weight == FuelWeight((fuel_percent * self.fuel_total) \div 100)
  IN Real(self.mtow - self.empty_weight + fuel_weight.w, fuel_weight.n)

\* fuel_percent is a fraction, given here in hundredths
AvailablePayload(self, fuel_percent) ==
  LET fuel_weight == FuelWeight((fuel_percent * self.fuel_total) \div 100)
  IN IntMinusReal(self.mtow - self.empty_weight, fuel_weight)

\* available_payload // PAX_WEIGHT_KG, which rounds down
PaxForPayloadFloored(available_payload) == FloorDiv(available_payload, PAX_WEIGHT_KG)

\* int(available_payload / PAX_WEIGHT_KG)
PaxForPayload(available_payload) == TruncDiv(available_payload, PAX_WEIGHT_KG)

get_pax_cargo_for_fuel(self, fuel_percent) ==
  LET available_payload == AvailablePayload(self, fuel_percent)
      available_pax == Min(get_max_pax(self), PaxForPayload(available_payload))
  IN [available_pax |-> available_pax, available_payload |-> available_payload]

(***************************************************************************)
(* utils.py: order_assignment_by_value                                     *)
(***************************************************************************)
Value(num, den) == [num |-> num, den |-> den]
\* a >= b for fractions with positive denominators
ValueGeq(a, b) == a.num * b.den >= b.num * a.den
ValueEq(a, b) == a.num * b.den = b.num * a.den

AssignmentWeight(assignment) ==
  IF assignment.UnitType = "passengers"
  THEN assignment.Amount * PAX_WEIGHT_KG
  ELSE assignment.Amount

\* the test with a free job let through
HasValueOrFree(assignment) == assignment.Pay >= 0 /\ assignment.Amount > 0

\* the pay > 0 and weight > 0 test
HasValue(assignment) == assignment.Pay > 0 /\ assignment.Amount > 0

\* dict.setdefault(key, value): a known key keeps its value
DictSetDefault(dict, key, value) ==
  IF \E i \in 1..Len(dict) : dict[i].Id = key
  THEN dict
  ELSE Append(dict, [Id |-> key, value |-> value])

\* dict[key] = value: a new key goes last, a known key keeps its place
DictSet(dict, key, value) ==
  IF \E i \in 1..Len(dict) : dict[i].Id = key
  THEN [i \in 1..Len(dict) |->
          IF dict[i].Id = key THEN [Id |-> key, value |-> value] ELSE dict[i]]
  ELSE Append(dict, [Id |-> key, value |-> value])

RECURSIVE AssignmentValueList(_, _)
AssignmentValueList(assignments, n) ==
  IF n = 0 THEN <<>>
  ELSE LET dict == AssignmentValueList(assignments, n - 1)
           assignment == assignments[n]
       IN IF HasValue(assignment)
          THEN DictSet(dict, assignment.Id,
                       Value(assignment.Pay, AssignmentWeight(assignment)))
          ELSE dict

\* an insertion that puts item before the items of equal value
InsertBeforeTies(sorted, item) ==
  LET k == Cardinality({i \in 1..Len(sorted) :
                          ValueGeq(sorted[i].value, item.value)
                          /\ ~ValueEq(sorted[i].value, item.value)})
  IN SubSeq(sorted, 1, k) \o <<item>> \o SubSeq(sorted, k + 1, Len(sorted))

\* where sorted(..., reverse=True) puts item among the items before it: after
\* every item whose value is at least its own (the sort is stable)
InsertByValue(sorted, item) ==
  LET k == Cardinality({i \in 1..Len(sorted) : ValueGeq(sorted[i].value, item.value)})
  IN SubSeq(sorted, 1, k) \o <<item>> \o SubSeq(sorted, k + 1, Len(sorted))

RECURSIVE SortedByValue(_, _)
SortedByValue(items, n) ==
  IF n = 0 THEN <<>>
  ELSE InsertByValue(SortedByValue(items, n - 1), items[n])

order_assignment_by_value(assignments) ==
  LET assignment_value_list == AssignmentValueList(assignments, Len(assignments))
  IN SortedByValue(assignment_value_list, Len(assignment_value_list))

(***************************************************************************)
(* utils.py: load_assignments, one iteration of its loop                   *)
(***************************************************************************)
\* the rows of the dataframe indexed by this Id
RowsById(assignments, assignment_id) ==
  {i \in 1..Len(assignments) : assignments[i].Id = assignment_id}

AssignmentById(assignments, assignment_id) ==
  assignments[CHOOSE i \in RowsById(assignments, assignment_id) : TRUE]

ExclusiveLoad(assignment) ==
  assignment.Type = ALL_IN \/ assignment.Type = VIP

\* the test with the "continue" never taken
NeverSkipsExclusive(assignment, remaining, initial) == FALSE

\* the test before "continue": an exclusive job and a payload that has changed
SkipsExclusive(assignment, remaining, initial) ==
  ExclusiveLoad(assignment) /\ remaining # initial

\* the aircraft test left out
BoundToAnyPlane(assignment, plane_id) == TRUE

\* load_into_plane after the aircraft test
BoundToThisPlane(assignment, plane_id) ==
  assignment.Type = ALL_IN => plane_id = assignment.AircraftId

\* load_into_plane after the passenger test
FitsSeats(assignment, pax_left) ==
  assignment.UnitType = "passengers" => ~(assignment.Amount > pax_left)

\* the payload test on the amount before its conversion to kg
FitsPayloadUnconverted(assignment, payload_left) ==
  ~IntGreater(assignment.Amount, payload_left)

\* load_into_plane after the payload test
FitsPayload(assignment, payload_left) ==
  ~IntGreater(AssignmentWeight(assignment), payload_left)

LoadIntoPlane(assignment, plane_id, payload_left, pax_left) ==
  /\ BoundToThisPlane(assignment, plane_id)
  /\ FitsSeats(assignment, pax_left)
  /\ FitsPayload(assignment, payload_left)

\* a loop that a job it does not load ends: the next index is past the last
Abandon(i, last) == last + 1

\* "continue", and the end of the loop body: on to the next ranked job
Continue(i, last) == i + 1

\* the loop without its break
NeverBreaks(assignment) == FALSE

\* lines 86-87, for a job that was loaded
BreaksAfterLoad(assignment) == ExclusiveLoad(assignment)

\* total_value with the amount added in place of the pay
ValueAfterLoadByAmount(assignment, value) == value + assignment.Amount

\* total_value += pay
ValueAfterLoad(assignment, value) == value + assignment.Pay

\* the seats left as they were
PaxUnchanged(assignment, pax_left) == pax_left

\* remaining_pax after a load
PaxAfterLoad(assignment, pax_left) ==
  IF assignment.UnitType = "passengers"
  THEN pax_left - (AssignmentWeight(assignment) \div PAX_WEIGHT_KG)
  ELSE pax_left

(***************************************************************************)
(* The inputs of plane_loader.                                             *)
(***************************************************************************)
Units == {"kg", "passengers"}
AircraftIds == {1, 2}

Row(type, unit, pay, amount, bound) ==
  [Type |-> type, UnitType |-> unit, Pay |-> pay, Amount |-> amount,
   AircraftId |-> bound]

\* the rows a feed offers: every trip type in both units, a second, less dense
\* Trip-Only job per unit, and two jobs without value
JobRows ==
  {Row(t, u, 2, 1, IF t = ALL_IN THEN 1 ELSE 0) : t \in TripTypes, u \in Units}
    \cup {Row(TRIP_ONLY, u, 2, 2, 0) : u \in Units}
    \cup {Row(TRIP_ONLY, "kg", 0, 1, 0), Row(TRIP_ONLY, "kg", 1, 0, 0)}

\* identifiers, numbered by first occurrence (rows may share one)
IdPatterns(n) ==
  {f \in [1..n -> 1..n] :
     \A i \in 1..n : \A k \in 1..n :
        (f[i] = k /\ k > 1) => \E j \in 1..(i - 1) : f[j] = k - 1}

WithId(row, id) ==
  [Id |-> id, Type |-> row.Type, UnitType |-> row.UnitType, Pay |-> row.Pay,
   Amount |-> row.Amount, AircraftId |-> row.AircraftId]

\* a dataframe of n rows
Frame(rows, ids, n) == [i \in 1..n |-> WithId(rows[i], ids[i])]

Payloads == {-1, 0, 3, 155}
PaxSeats == {-1, 1, 2}
\* 155 kg of payload and two passenger seats with empty tanks
LoaderAircraft == {Aircraft(1000, 4, 1, 845, 20)}
FuelPercents == {0, 25, 50, 75, 100}

\* max_payload and max_pax given, either or both left out, or an aircraft
\* with empty or full tanks
Capacities ==
  {[max_payload |-> Some(p), max_pax |-> Some(x), fuel_pct |-> 100, aircraft_data |-> None] :
      p \in Payloads, x \in PaxSeats}
    \cup {[max_payload |-> p, max_pax |-> x, fuel_pct |-> 100, aircraft_data |-> None] :
            p \in {None, Some(155)}, x \in {None, Some(2)}}
    \cup {[max_payload |-> None, max_pax |-> None, fuel_pct |-> f, aircraft_data |-> a] :
            f \in {0, 100}, a \in {Some(v) : v \in LoaderAircraft}}

PlaneLoaderCall(assignments, id, c) ==
  [assignments |-> assignments, aircraft_id |-> id, max_payload |-> c.max_payload,
   max_pax |-> c.max_pax, fuel_pct |-> c.fuel_pct, aircraft_data |-> c.aircraft_data]

AircraftIdle == aircraft = None /\ max_pax_result = None /\ capacity = None
AirportsIdle == query = None /\ box = None /\ locations = <<>> /\ icao_list = <<>>
\* the locals of a call before their assignment
LoaderUnbound ==
  /\ starting_payload = Unbound /\ starting_pax = Unbound
  /\ assignment_values = Unbound /\ idx = 0 /\ assignment_ids = Unbound
  /\ total_value = 0 /\ remaining_payload = Unbound /\ remaining_pax = Unbound
  /\ raised = NoError
LoaderIdle == call = None /\ LoaderUnbound

(***************************************************************************)
(* utils.py: plane_loader                                                  *)
(***************************************************************************)
\* a 3-passenger Trip-Only job paying 300 (id 1) and a 500 kg Trip-Only job
\* paying 1000 (id 2)
PassengersAndCargo ==
  <<WithId(Row(TRIP_ONLY, "passengers", 300, 3, 0), 1),
    WithId(Row(TRIP_ONLY, "kg", 1000, 500, 0), 2)>>

\* the amounts of a VIP job: light, at the seats, over the seats, at the
\* payload, over the payload, and too heavy to rank first
VipAmounts == {1, 4, 5, 1000, 1001, 3000}

\* a job paying 5000 (id 1) and a 100 kg Trip-Only job paying 200 (id 2)
PayingAndCargo(type, unit, amount) ==
  <<WithId(Row(type, unit, 5000, amount, 0), 1),
    WithId(Row(TRIP_ONLY, "kg", 200, 100, 0), 2)>>

\* the job paying 5000 a VIP job
VipAndCargo(unit, amount) == PayingAndCargo(VIP, unit, amount)

\* 1000 kg of payload and 4 seats
ScenarioCapacity ==
  [max_payload |-> Some(1000), max_pax |-> Some(4), fuel_pct |-> 100, aircraft_data |-> None]

ScenarioCalls ==
  {PlaneLoaderCall(PassengersAndCargo, 1, ScenarioCapacity)}
    \cup {PlaneLoaderCall(PayingAndCargo(t, u, a), 1, ScenarioCapacity) :
            t \in {VIP, TRIP_ONLY}, u \in Units, a \in VipAmounts}

Init ==
  /\ pc = "plane_loader"
  /\ \/ \E n \in 0..MaxJobs : \E rows \in [1..n -> JobRows] : \E ids \in IdPatterns(n) :
          \E id \in AircraftIds : \E c \in Capacities :
             call = PlaneLoaderCall(Frame(rows, ids, n), id, c)
     \/ call \in ScenarioCalls
  /\ LoaderUnbound
  /\ AircraftIdle /\ AirportsIdle

\* the test with max_payload and max_pax never looked at
HasAircraftData(c) == c.aircraft_data # None

\* lines 110 and 112: aircraft_data, or max_payload and max_pax
HasCapacity(c) ==
  c.aircraft_data # None \/ (c.max_payload # None /\ c.max_pax # None)

\* lines 110-114: the starting capacity
PlaneLoaderCapacity ==
  /\ pc = "plane_loader"
  /\ HasCapacity(call)
  /\ IF call.aircraft_data # None
     THEN LET r == get_pax_cargo_for_fuel(call.aircraft_data[1], call.fuel_pct)
          IN /\ starting_pax' = r.available_pax
             /\ starting_payload' = r.available_payload
     ELSE /\ starting_payload' = RealOfInt(call.max_payload[1])
          /\ starting_pax' = call.max_pax[1]
  /\ pc' = "order_assignment_by_value"
  /\ UNCHANGED <<call, assignment_values, idx, assignment_ids, total_value,
                 remaining_payload, remaining_pax, raised, aircraftVars, airportVars>>

\* line 116
PlaneLoaderRaise ==
  /\ pc = "plane_loader"
  /\ ~HasCapacity(call)
  /\ raised' = "PlaneLoadingError"
  /\ pc' = "raised"
  /\ UNCHANGED <<call, starting_payload, starting_pax, assignment_values, idx,
                 assignment_ids, total_value, remaining_payload, remaining_pax,
                 aircraftVars, airportVars>>

\* line 118, and lines 46-49 of load_assignments
OrderAssignments ==
  /\ pc = "order_assignment_by_value"
  /\ assignment_values' = order_assignment_by_value(call.assignments)
  /\ assignment_ids' = <<>>
  /\ remaining_payload' = starting_payload
  /\ remaining_pax' = starting_pax
  /\ total_value' = 0
  /\ idx' = 1
  /\ pc' = "load_assignments"
  /\ UNCHANGED <<call, starting_payload, starting_pax, raised, aircraftVars, airportVars>>

InLoop == pc = "load_assignments" /\ idx <= Len(assignment_values)
CurrentId == assignment_values[idx].Id
CurrentUnique == Cardinality(RowsById(call.assignments, CurrentId)) = 1
Current == AssignmentById(call.assignments, CurrentId)

\* an Id that indexes several rows: the lookups return arrays, whose truth
\* value in "type_is_allin or type_is_vip" raises
LoadAmbiguous ==
  /\ InLoop
  /\ ~CurrentUnique
  /\ raised' = "ValueError"
  /\ pc' = "raised"
  /\ UNCHANGED <<call, starting_payload, starting_pax, assignment_values, idx,
                 assignment_ids, total_value, remaining_payload, remaining_pax,
                 aircraftVars, airportVars>>

\* lines 62-64
LoadSkipExclusive ==
  /\ InLoop
  /\ CurrentUnique
  /\ SkipsExclusive(Current, remaining_payload, starting_payload)
  /\ idx' = Continue(idx, Len(assignment_values))
  /\ UNCHANGED <<pc, call, starting_payload, starting_pax, assignment_values,
                 assignment_ids, total_value, remaining_payload, remaining_pax,
                 raised, aircraftVars, airportVars>>

\* lines 66-76 with load_into_plane false
LoadNotLoadable ==
  /\ InLoop
  /\ CurrentUnique
  /\ ~SkipsExclusive(Current, remaining_payload, starting_payload)
  /\ ~LoadIntoPlane(Current, call.aircraft_id, remaining_payload, remaining_pax)
  /\ idx' = Continue(idx, Len(assignment_values))
  /\ UNCHANGED <<pc, call, starting_payload, starting_pax, assignment_values,
                 assignment_ids, total_value, remaining_payload, remaining_pax,
                 raised, aircraftVars, airportVars>>

\* lines 78-87 with load_into_plane true: the job is loaded, and an exclusive
\* one ends the loop
LoadAssignment ==
  /\ InLoop
  /\ CurrentUnique
  /\ ~SkipsExclusive(Current, remaining_payload, starting_payload)
  /\ LoadIntoPlane(Current, call.aircraft_id, remaining_payload, remaining_pax)
  /\ assignment_ids' = Append(assignment_ids, CurrentId)
  /\ total_value' = ValueAfterLoad(Current, total_value)
  /\ remaining_payload' = RealMinusInt(remaining_payload, AssignmentWeight(Current))
  /\ remaining_pax' = PaxAfterLoad(Current, remaining_pax)
  /\ IF BreaksAfterLoad(Current)
     THEN pc' = "done" /\ idx' = idx
     ELSE pc' = pc /\ idx' = idx + 1
  /\ UNCHANGED <<call, starting_payload, starting_pax, assignment_values,
                 raised, aircraftVars, airportVars>>

\* line 89 after the last item
LoadReturn ==
  /\ pc = "load_assignments"
  /\ idx > Len(assignment_values)
  /\ pc' = "done"
  /\ UNCHANGED <<loaderVars, aircraftVars, airportVars>>

Next ==
  \/ PlaneLoaderCapacity
  \/ PlaneLoaderRaise
  \/ OrderAssignments
  \/ LoadAmbiguous
  \/ LoadSkipExclusive
  \/ LoadNotLoadable
  \/ LoadAssignment
  \/ LoadReturn

Spec == Init /\ [][Next]_vars

(***************************************************************************)
(* order_assignment_by_value called on its own.                            *)
(***************************************************************************)
MaxRanked == 3

\* rows as the ranking sees them: pay and amount 0..2 in kg, and passengers
RankRows ==
  {Row(TRIP_ONLY, "kg", p, a, 0) : p \in 0..2, a \in 0..2}
    \cup {Row(TRIP_ONLY, "passengers", 2, a, 0) : a \in 1..2}

InitRank ==
  /\ pc = "order_assignment_by_value"
  /\ \E n \in 0..MaxRanked : \E rows \in [1..n -> RankRows] : \E ids \in IdPatterns(n) :
       call = [assignments |-> Frame(rows, ids, n)]
  /\ LoaderUnbound
  /\ AircraftIdle /\ AirportsIdle

RankAssignments ==
  /\ pc = "order_assignment_by_value"
  /\ assignment_values' = order_assignment_by_value(call.assignments)
  /\ pc' = "ranked"
  /\ UNCHANGED <<call, starting_payload, starting_pax, idx, assignment_ids,
                 total_value, remaining_payload, remaining_pax, raised,
                 aircraftVars, airportVars>>

NextRank == RankAssignments

SpecRank == InitRank /\ [][NextRank]_vars

(***************************************************************************)
(* Properties of the loader and of the ranking.                            *)
(***************************************************************************)
Returned == pc = "done"
Ranked == pc \in {"ranked", "load_assignments", "done"}

PlanRow(i) == AssignmentById(call.assignments, assignment_ids[i])
PlanRows == {PlanRow(i) : i \in 1..Len(assignment_ids)}
RowPax(row) == IF row.UnitType = "passengers" THEN row.Amount ELSE 0
\* kg amounts plus 77 kg per passenger
RowKg(row) == IF row.UnitType = "passengers" THEN 77 * row.Amount ELSE row.Amount
LoadedWeight == SeqSum([i \in 1..Len(assignment_ids) |-> PlanRow(i)], RowKg)
LoadedPax == SeqSum([i \in 1..Len(assignment_ids) |-> PlanRow(i)], RowPax)

RankedIds == {assignment_values[i].Id : i \in 1..Len(assignment_values)}
RankOf(id) == CHOOSE i \in 1..Len(assignment_values) : assignment_values[i].Id = id
OccursOnce(id) == Cardinality(RowsById(call.assignments, id)) = 1
InputRows == 1..Len(call.assignments)
InputRow(i) == call.assignments[i]
\* payout / amount for kg jobs, payout / (amount x 77) for passenger jobs
Density(row) == Value(row.Pay, RowKg(row))
Valued(row) == row.Pay > 0 /\ row.Amount > 0

\* C1, as stated: the plan that plane_loader returns weighs (kg amounts plus
\* 77 kg per passenger) at most the starting payload and carries at most the
\* starting pax seats.
C1_AsStated ==
  Returned =>
    /\ ~IntGreater(LoadedWeight, starting_payload)
    /\ LoadedPax <= starting_pax

\* C1, amended: the returned plan weighs at most the starting payload and
\* carries at most the starting pax seats, each taken as 0 when negative; with
\* a starting payload of zero or less nothing is loaded.
C1_WithinCapacity ==
  Returned =>
    /\ LoadedWeight <= Max(0, starting_payload.w)
    /\ LoadedPax <= Max(0, starting_pax)
    /\ RealLeq(starting_payload, RealOfInt(0)) => assignment_ids = <<>>

\* a returned plan that holds a job and left out a ranked Trip-Only job too
\* heavy for the payload that remained
C1_Witness ==
  /\ Returned
  /\ assignment_ids # <<>>
  /\ \E id \in RankedIds :
       /\ \A i \in 1..Len(assignment_ids) : assignment_ids[i] # id
       /\ AssignmentById(call.assignments, id).Type = TRIP_ONLY
       /\ IntGreater(RowKg(AssignmentById(call.assignments, id)), remaining_payload)

\* C2: a plan that holds a VIP or All-In job holds that job alone, at every
\* point of the loading pass and on return.
C2_ExclusiveAlone ==
  pc \in {"load_assignments", "done"} =>
    ((\E row \in PlanRows : row.Type \in {VIP, ALL_IN}) => Len(assignment_ids) = 1)

\* a returned plan of one exclusive job, ranked first of several, where a
\* ranked Trip-Only job would still fit the payload and the seats left
C2_Witness ==
  /\ Returned
  /\ Len(assignment_ids) = 1
  /\ PlanRow(1).Type \in {VIP, ALL_IN}
  /\ \E id \in RankedIds :
       LET row == AssignmentById(call.assignments, id)
       IN /\ row.Type = TRIP_ONLY
          /\ ~IntGreater(RowKg(row), remaining_payload)
          /\ RowPax(row) <= remaining_pax

\* C3: an All-In job bound to another aircraft than the one passed to the
\* loader is never in the plan.
C3_AllInBound ==
  pc \in {"load_assignments", "done"} =>
    \A row \in PlanRows : row.Type = ALL_IN => row.AircraftId = call.aircraft_id

\* a returned plan without the first-ranked job, an All-In job of another
\* aircraft that fits the starting payload and seats
C3_Witness ==
  /\ Returned
  /\ assignment_values # <<>>
  /\ LET row == AssignmentById(call.assignments, assignment_values[1].Id)
     IN /\ row.Type = ALL_IN
        /\ row.AircraftId # call.aircraft_id
        /\ ~IntGreater(RowKg(row), starting_payload)
        /\ RowPax(row) <= starting_pax
        /\ row \notin PlanRows

\* the job whose density its identifier's entry holds
LastValued(i) ==
  /\ Valued(InputRow(i))
  /\ \A j \in InputRows : (j > i /\ InputRow(j).Id = InputRow(i).Id) => ~Valued(InputRow(j))

NonIncreasing ==
  \A k \in 1..(Len(assignment_values) - 1) :
     ValueGeq(assignment_values[k].value, assignment_values[k + 1].value)

HoldsDensities ==
  \A i \in InputRows :
     LastValued(i) =>
       /\ InputRow(i).Id \in RankedIds
       /\ ValueEq(assignment_values[RankOf(InputRow(i).Id)].value, Density(InputRow(i)))

\* C4, as stated: the ranking is in non-increasing order of density, and of
\* two jobs of equal density with distinct ids the one first in the input is
\* first in the ranking.
C4_AsStated ==
  pc = "ranked" =>
    /\ NonIncreasing
    /\ HoldsDensities
    /\ \A i \in InputRows : \A j \in InputRows :
         (/\ i < j
          /\ InputRow(i).Id # InputRow(j).Id
          /\ LastValued(i) /\ LastValued(j)
          /\ ValueEq(Density(InputRow(i)), Density(InputRow(j))))
           => RankOf(InputRow(i).Id) < RankOf(InputRow(j).Id)

\* C4, amended: the ranking is in non-increasing order of density (payout /
\* amount, payout / (amount x 77) for passengers), and of two jobs of equal
\* density whose ids no other job of the input shares, the one first in the
\* input is first in the ranking.
C4_SortedStable ==
  pc = "ranked" =>
    /\ NonIncreasing
    /\ HoldsDensities
    /\ \A i \in InputRows : \A j \in InputRows :
         (/\ i < j
          /\ OccursOnce(InputRow(i).Id) /\ OccursOnce(InputRow(j).Id)
          /\ Valued(InputRow(i)) /\ Valued(InputRow(j))
          /\ ValueEq(Density(InputRow(i)), Density(InputRow(j))))
           => RankOf(InputRow(i).Id) < RankOf(InputRow(j).Id)

\* a ranking of three jobs with their own ids: two of equal density that
\* differ in pay, and a third of another density
C4_Witness ==
  /\ pc = "ranked"
  /\ Len(assignment_values) = 3
  /\ \E i \in InputRows : \E j \in InputRows :
       /\ i < j
       /\ OccursOnce(InputRow(i).Id) /\ OccursOnce(InputRow(j).Id)
       /\ InputRow(i).Pay # InputRow(j).Pay
       /\ ValueEq(Density(InputRow(i)), Density(InputRow(j)))
  /\ ~ValueEq(assignment_values[1].value, assignment_values[3].value)

\* C5: every entry of the ranking is the density of a job with payout > 0 and
\* amount > 0; a job with its own id is ranked exactly when its payout and
\* amount are positive; every job of a plan has positive payout and amount.
C5_OnlyValued ==
  Ranked =>
    /\ \A k \in 1..Len(assignment_values) :
         \E i \in InputRows :
            /\ InputRow(i).Id = assignment_values[k].Id
            /\ Valued(InputRow(i))
            /\ ValueEq(assignment_values[k].value, Density(InputRow(i)))
    /\ \A i \in InputRows :
         OccursOnce(InputRow(i).Id) =>
           (InputRow(i).Id \in RankedIds <=> Valued(InputRow(i)))
    /\ pc \in {"load_assignments", "done"} => \A row \in PlanRows : Valued(row)

\* a returned plan with a job in it, for an input that held a job without
\* value
C5_Witness ==
  /\ Returned
  /\ assignment_ids # <<>>
  /\ \E i \in InputRows : OccursOnce(InputRow(i).Id) /\ ~Valued(InputRow(i))

(***************************************************************************)
(* aircraft.py: capacity queries on one Aircraft.                          *)
(***************************************************************************)
\* MTOW 1000 kg; fuel capacities of which every fuel percent is whole gallons
AircraftProfiles ==
  {Aircraft(1000, seats, crew, empty_weight, fuel_total) :
     seats \in {1, 2, 4}, crew \in {0, 1},
     empty_weight \in {600, 900, 950}, fuel_total \in {0, 20, 60}}

InitAircraft ==
  /\ pc = "aircraft"
  /\ aircraft \in {Some(a) : a \in AircraftProfiles}
  /\ max_pax_result = None
  /\ capacity = [f \in FuelPercents |-> None]
  /\ LoaderIdle /\ AirportsIdle

GetMaxPax ==
  /\ pc = "aircraft"
  /\ max_pax_result' = Some(get_max_pax(aircraft[1]))
  /\ UNCHANGED <<pc, aircraft, capacity, loaderVars, airportVars>>

GetPaxCargoForFuel ==
  /\ pc = "aircraft"
  /\ \E fuel_percent \in FuelPercents :
       capacity' = [capacity EXCEPT
                      ![fuel_percent] = Some(get_pax_cargo_for_fuel(aircraft[1], fuel_percent))]
  /\ UNCHANGED <<pc, aircraft, max_pax_result, loaderVars, airportVars>>

NextAircraft == GetMaxPax \/ GetPaxCargoForFuel

SpecAircraft == InitAircraft /\ [][NextAircraft]_vars

(***************************************************************************)
(* Properties of the capacity queries.                                     *)
(***************************************************************************)
Queried == IF pc = "aircraft" THEN {f \in FuelPercents : capacity[f] # None} ELSE {}
Pax(f) == capacity[f][1].available_pax
Payload(f) == capacity[f][1].available_payload
SeatsLeft == aircraft[1].seats - aircraft[1].crew - 1
Quotients == -20..20

\* t = floor(r / 77)
IsFloorOf77th(t, r) ==
  /\ RealLeq(RealOfInt(77 * t), r)
  /\ ~RealLeq(RealOfInt(77 * (t + 1)), r)

\* t = r / 77 rounded toward zero
IsTruncOf77th(t, r) ==
  IF RealLeq(RealOfInt(0), r)
  THEN IsFloorOf77th(t, r)
  ELSE /\ RealLeq(r, RealOfInt(77 * t))
       /\ ~RealLeq(r, RealOfInt(77 * (t - 1)))

\* C6, as stated: availablePassengers = min(maxPax, floor(availablePayloadKg /
\* 77)), the floor rounding toward minus infinity, also for a negative payload.
C6_AsStated ==
  \A f \in Queried :
     \E t \in Quotients : IsFloorOf77th(t, Payload(f)) /\ Pax(f) = Min(SeatsLeft, t)

\* C6, amended: availablePassengers = min(maxPax, availablePayloadKg / 77
\* rounded toward zero), which is the floor when the payload is not negative.
C6_PaxTruncated ==
  \A f \in Queried :
     \E t \in Quotients : IsTruncOf77th(t, Payload(f)) /\ Pax(f) = Min(SeatsLeft, t)

\* a query whose payload is negative and no multiple of 77, on an aircraft
\* with passenger seats
C6_Witness ==
  \E f \in Queried :
     /\ ~RealLeq(RealOfInt(0), Payload(f))
     /\ Payload(f).n # 0
     /\ SeatsLeft > 0

\* C7: get_max_pax returns seats - crew - 1 floored at 0, never a negative
\* number, and availablePassengers is never negative.
C7_AsStated ==
  /\ (pc = "aircraft" /\ max_pax_result # None) =>
        /\ max_pax_result[1] >= 0
        /\ max_pax_result[1] = Max(0, SeatsLeft)
  /\ \A f \in Queried : Pax(f) >= 0

\* C8: of two queries on one aircraft, the one with the larger fuel fraction
\* returns no more payload and no more passengers.
C8_Monotone ==
  \A f1 \in Queried : \A f2 \in Queried :
     f1 <= f2 => (RealLeq(Payload(f2), Payload(f1)) /\ Pax(f2) <= Pax(f1))

\* two queries where more fuel costs payload and a passenger
C8_Witness ==
  \E f1 \in Queried : \E f2 \in Queried :
     /\ f1 < f2
     /\ Payload(f1) # Payload(f2)
     /\ Pax(f2) < Pax(f1)

(***************************************************************************)
(* utils.py: GeoLocation, and airports.py: Airports.  Angles are in        *)
(* microdegrees, which the conversions of radians and degrees leave as     *)
(* they are; distances on the ellipsoid are in metres.                     *)
(***************************************************************************)
Degrees(d) == d * 1000000
MIN_LAT == Degrees(-90)
MAX_LAT == Degrees(90)
MIN_LON == Degrees(-180)
MAX_LON == Degrees(180)
METERS_PER_NM == 1852

\* the rows of icaodata.csv: on the equator, at 10 N, at 60 N, either side of
\* the 180th meridian at 30 N, and either side of the pole at 86 N
AirportData ==
  <<[icao |-> "EQ00", lat |-> 0, lon |-> 0, type |-> "civil"],
     [icao |-> "EQ01", lat |-> 0, lon |-> 1000000, type |-> "military"],
     [icao |-> "EQ02", lat |-> 0, lon |-> 2000000, type |-> "civil"],
     [icao |-> "NO10", lat |-> 10000000, lon |-> 0, type |-> "civil"],
     [icao |-> "HI60", lat |-> 60000000, lon |-> 0, type |-> "civil"],
     [icao |-> "HI61", lat |-> 60000000, lon |-> 1000000, type |-> "civil"],
     [icao |-> "AM79", lat |-> 30000000, lon |-> 179000000, type |-> "civil"],
     [icao |-> "AM81", lat |-> 30000000, lon |-> -179000000, type |-> "civil"],
     [icao |-> "PO00", lat |-> 86000000, lon |-> 0, type |-> "civil"],
     [icao |-> "PO18", lat |-> 86000000, lon |-> 180000000, type |-> "civil"]>>

AirportRows == 1..Len(AirportData)
AirportAt(icao) ==
  AirportData[CHOOSE i \in AirportRows : AirportData[i].icao = icao]

\* s12 of Geodesic.WGS84.Inverse between the airports of the data, to the metre
GeodesicTable ==
  {<<"EQ00", "EQ01", 111319>>, <<"EQ00", "EQ02", 222639>>, <<"EQ00", "NO10", 1105855>>,
   <<"EQ00", "HI60", 6654073>>, <<"EQ00", "HI61", 6654637>>, <<"EQ00", "AM79", 16682156>>,
   <<"EQ00", "AM81", 16682156>>, <<"EQ00", "PO00", 9555197>>, <<"EQ00", "PO18", 10448734>>,
   <<"EQ01", "EQ02", 111319>>, <<"EQ01", "NO10", 1111387>>, <<"EQ01", "HI60", 6654637>>,
   <<"EQ01", "HI61", 6654073>>, <<"EQ01", "AM79", 16677173>>, <<"EQ01", "AM81", 16683818>>,
   <<"EQ01", "PO00", 9555265>>, <<"EQ01", "PO18", 10448666>>, <<"EQ02", "NO10", 1127822>>,
   <<"EQ02", "HI60", 6656328>>, <<"EQ02", "HI61", 6654637>>, <<"EQ02", "AM79", 16668885>>,
   <<"EQ02", "AM81", 16682156>>, <<"EQ02", "PO00", 9555470>>, <<"EQ02", "PO18", 10448462>>,
   <<"NO10", "HI60", 5548218>>, <<"NO10", "HI61", 5548846>>, <<"NO10", "AM79", 15576684>>,
   <<"NO10", "AM81", 15576684>>, <<"NO10", "PO00", 8449342>>, <<"NO10", "PO18", 9342879>>,
   <<"HI60", "HI61", 55799>>, <<"HI60", "AM79", 10029324>>, <<"HI60", "AM81", 10029324>>,
   <<"HI60", "PO00", 2901124>>, <<"HI60", "PO18", 3794661>>, <<"HI61", "AM79", 10028061>>,
   <<"HI61", "AM81", 10029745>>, <<"HI61", "PO00", 2901202>>, <<"HI61", "PO18", 3794601>>,
   <<"AM79", "AM81", 192970>>, <<"AM79", "PO00", 7128555>>, <<"AM79", "PO18", 6235155>>,
   <<"AM81", "PO00", 7128555>>, <<"AM81", "PO18", 6235155>>, <<"PO00", "PO18", 893537>>}

GeodesicMetres(departure_icao, arrival_icao) ==
  IF departure_icao = arrival_icao THEN 0
  ELSE (CHOOSE t \in GeodesicTable :
          {t[1], t[2]} = {departure_icao, arrival_icao})[3]

\* distance / radius as an angle, by the distance in metres (the code's
\* distance is in km, on a sphere of radius 6371.01 km)
RadDistTable ==
  {<<0, 0>>, <<111120, 999325>>, <<500000, 4496601>>, <<1111200, 9993246>>}
RadDist(distance) == (CHOOSE t \in RadDistTable : t[1] = distance)[2]

\* math.asin(math.sin(rad_dist) / math.cos(rad_lat)), by distance and latitude
DeltaLonTable ==
  {<<111120, -86000000, 14478786>>,
   <<111120, -60000000, 1998953>>,
   <<111120, -30000000, 1153940>>,
   <<111120, 0, 999325>>,
   <<111120, 10000000, 1014742>>,
   <<111120, 30000000, 1153940>>,
   <<111120, 60000000, 1998953>>,
   <<111120, 86000000, 14478786>>,
   <<500000, -60000000, 9021200>>,
   <<500000, -30000000, 5194010>>,
   <<500000, 0, 4496601>>,
   <<500000, 10000000, 4566114>>,
   <<500000, 30000000, 5194010>>,
   <<500000, 60000000, 9021200>>,
   <<1111200, -60000000, 20307852>>,
   <<1111200, -30000000, 11559041>>,
   <<1111200, 0, 9993246>>,
   <<1111200, 10000000, 10149028>>,
   <<1111200, 30000000, 11559041>>,
   <<1111200, 60000000, 20307852>>}
\* sin(0) / cos(rad_lat) is 0 at every latitude, the poles included
DeltaLon(distance, lat) ==
  IF distance = 0 THEN 0
  ELSE (CHOOSE t \in DeltaLonTable : t[1] = distance /\ t[2] = lat)[3]

BoundingBox(min_lat, min_lon, max_lat, max_lon) ==
  [min_lat |-> min_lat, min_lon |-> min_lon, max_lat |-> max_lat, max_lon |-> max_lon]

\* min_lon and max_lon of the branch without a pole, each wrapped once
WrappedMinLon(lon, delta_lon) ==
  IF lon - delta_lon < MIN_LON THEN lon - delta_lon + Degrees(360) ELSE lon - delta_lon
WrappedMaxLon(lon, delta_lon) ==
  IF lon + delta_lon > MAX_LON THEN lon + delta_lon - Degrees(360) ELSE lon + delta_lon

\* the test with a band that ends on a pole taken as clear of it
ClearOfPolesOrOn(min_lat, max_lat) == min_lat >= MIN_LAT /\ max_lat <= MAX_LAT

\* min_lat > self.MIN_LAT and max_lat < self.MAX_LAT
ClearOfPoles(min_lat, max_lat) == min_lat > MIN_LAT /\ max_lat < MAX_LAT

\* distance in metres
bounding_coordinates(lat, lon, distance) ==
  LET rad_dist == RadDist(distance)
      min_lat == lat - rad_dist
      max_lat == lat + rad_dist
  IN IF ClearOfPoles(min_lat, max_lat)
     THEN LET delta_lon == DeltaLon(distance, lat)
          IN BoundingBox(min_lat, WrappedMinLon(lon, delta_lon),
                         max_lat, WrappedMaxLon(lon, delta_lon))
     ELSE BoundingBox(Max(min_lat, MIN_LAT), MIN_LON, Min(max_lat, MAX_LAT), MAX_LON)

\* the bounding-area part of the row filter of get_airports_within
InBoundingArea(row, b) ==
  /\ b.min_lon <= row.lon /\ row.lon <= b.max_lon
  /\ b.min_lat <= row.lat /\ row.lat <= b.max_lat

\* the filter with the centre left in
KeepsSelf(icao, row) == TRUE

\* icao != cls._airport_data['icao']
ExcludesSelf(icao, row) == icao # row.icao

\* the kept rows among the first n, in the order of the data
RECURSIVE SelectRows(_, _)
SelectRows(n, kept) ==
  IF n = 0 THEN <<>>
  ELSE IF n \in kept
       THEN Append(SelectRows(n - 1, kept), AirportData[n].icao)
       ELSE SelectRows(n - 1, kept)

Queries ==
  [icao : {AirportData[i].icao : i \in AirportRows}, max_distance : {60, 600},
   min_distance : {-1, 0, 100}, civil_only : BOOLEAN]

InitAirports ==
  /\ pc = "get_airports_within"
  /\ query \in Queries
  /\ box = None /\ locations = <<>> /\ icao_list = <<>>
  /\ LoaderIdle /\ AircraftIdle

\* lines 77-91: the bounding coordinates and the filtered rows
FilterLocations ==
  /\ pc = "get_airports_within"
  /\ LET centre == AirportAt(query.icao)
         max_distance_m == query.max_distance * METERS_PER_NM
         b == bounding_coordinates(centre.lat, centre.lon, max_distance_m)
         Keep(row) == /\ InBoundingArea(row, b)
                      /\ ExcludesSelf(query.icao, row)
                      /\ query.civil_only => row.type = "civil"
     IN /\ box' = Some(b)
        /\ locations' = SelectRows(Len(AirportData),
                                   {i \in AirportRows : Keep(AirportData[i])})
  /\ icao_list' = <<>>
  /\ pc' = "iterrows"
  /\ UNCHANGED <<query, loaderVars, aircraftVars>>

\* min_distance < distance <= max_distance, distance in nautical miles
InRange(metres, min_distance, max_distance) ==
  /\ min_distance * METERS_PER_NM < metres
  /\ metres <= max_distance * METERS_PER_NM

\* lines 93-97: one row of the loop
VisitLocation ==
  /\ pc = "iterrows"
  /\ locations # <<>>
  /\ LET location_icao == Head(locations)
         distance == GeodesicMetres(query.icao, location_icao)
     IN icao_list' =
          IF InRange(distance, query.min_distance, query.max_distance)
          THEN Append(icao_list, [icao |-> location_icao, distance |-> distance])
          ELSE icao_list
  /\ locations' = Tail(locations)
  /\ UNCHANGED <<pc, query, box, loaderVars, aircraftVars>>

\* lines 99-100
ReturnAirports ==
  /\ pc = "iterrows"
  /\ locations = <<>>
  /\ pc' = "returned"
  /\ UNCHANGED <<query, box, locations, icao_list, loaderVars, aircraftVars>>

NextAirports == FilterLocations \/ VisitLocation \/ ReturnAirports

SpecAirports == InitAirports /\ [][NextAirports]_vars

(***************************************************************************)
(* Properties of the airport search.                                       *)
(***************************************************************************)
Searching == pc \in {"iterrows", "returned"}
Centre == AirportAt(query.icao)

\* C9: the result of get_airports_within never holds the centre airport,
\* every entry has min_distance < distance <= max_distance (in nautical
\* miles of 1852 m), and with civil_only set every entry is a civil airport.
C9_Within ==
  Searching =>
    \A k \in 1..Len(icao_list) :
       /\ icao_list[k].icao # query.icao
       /\ query.min_distance * 1852 < icao_list[k].distance
       /\ icao_list[k].distance <= query.max_distance * 1852
       /\ query.civil_only => AirportAt(icao_list[k].icao).type = "civil"

\* a returned, non-empty civil-only result of a search with a negative
\* min_distance (which the centre's own distance of 0 exceeds), with a
\* military airport within the radius
C9_Witness ==
  /\ pc = "returned"
  /\ icao_list # <<>>
  /\ query.civil_only
  /\ query.min_distance < 0
  /\ \E i \in AirportRows :
       /\ AirportData[i].type # "civil"
       /\ GeodesicMetres(query.icao, AirportData[i].icao) <= query.max_distance * 1852

\* C10: every airport of the data within the radius of the centre passes the
\* bounding-area test on the four values bounding_coordinates returned, also
\* when the longitudes are wrapped across the 180th meridian.
C10_AsStated ==
  Searching =>
    \A i \in AirportRows :
       GeodesicMetres(query.icao, AirportData[i].icao) <= query.max_distance * 1852
         => /\ box[1].min_lat <= AirportData[i].lat /\ AirportData[i].lat <= box[1].max_lat
            /\ box[1].min_lon <= AirportData[i].lon /\ AirportData[i].lon <= box[1].max_lon

(***************************************************************************)
(* utils.py: GeoLocation.bounding_coordinates called on its own.           *)
(***************************************************************************)
\* centres at the poles, 4 degrees from them and further away, on and next
\* to the 180th meridian; distances of 0 km, 500 km and 1111.2 km in metres
GeoLatitudes == {Degrees(d) : d \in {-90, -86, -60, 0, 30, 60, 86, 90}}
GeoLongitudes == {Degrees(d) : d \in {-180, -179, 0, 179, 180}}
GeoDistances == {0, 500000, 1111200}

\* GeoLocation(lat, lon) and the distance of the call
InitBounds ==
  /\ pc = "bounding_coordinates"
  /\ query \in [lat : GeoLatitudes, lon : GeoLongitudes, distance : GeoDistances]
  /\ box = None /\ locations = <<>> /\ icao_list = <<>>
  /\ LoaderIdle /\ AircraftIdle

BoundingCoordinates ==
  /\ pc = "bounding_coordinates"
  /\ box' = Some(bounding_coordinates(query.lat, query.lon, query.distance))
  /\ pc' = "bounded"
  /\ UNCHANGED <<query, locations, icao_list, loaderVars, aircraftVars>>

NextBounds == BoundingCoordinates

SpecBounds == InitBounds /\ [][NextBounds]_vars

(***************************************************************************)
(* Properties of the bounding coordinates.                                 *)
(***************************************************************************)
Bounded == pc = "bounded"
BandMinLat == query.lat - RadDist(query.distance)
BandMaxLat == query.lat + RadDist(query.distance)

\* C11: when the latitude band centre +/- angular radius reaches or passes a
\* pole (min_lat <= -90 or max_lat >= 90), bounding_coordinates returns the
\* longitudes -180 and 180 and the band's latitudes clamped into [-90, 90];
\* for centre latitude 90 and 500 km it returns max latitude 90 and the
\* longitudes -180 and 180.
C11_PoleSpan ==
  Bounded =>
    /\ (BandMinLat <= Degrees(-90) \/ BandMaxLat >= Degrees(90)) =>
          /\ box[1].min_lon = Degrees(-180)
          /\ box[1].max_lon = Degrees(180)
          /\ box[1].min_lat = Max(BandMinLat, Degrees(-90))
          /\ box[1].max_lat = Min(BandMaxLat, Degrees(90))
          /\ Degrees(-90) <= box[1].min_lat /\ box[1].max_lat <= Degrees(90)
    /\ (query.lat = Degrees(90) /\ query.distance = 500000) =>
          /\ box[1].max_lat = Degrees(90)
          /\ box[1].min_lon = Degrees(-180)
          /\ box[1].max_lon = Degrees(180)

\* the box of a centre on the North Pole, away from the 180th meridian, for
\* 500 km: its band passes the pole
C11_Witness ==
  /\ Bounded
  /\ query.lat = Degrees(90)
  /\ query.lon = 0
  /\ query.distance = 500000
  /\ BandMaxLat > Degrees(90)
  /\ box[1].min_lat < Degrees(90)

(***************************************************************************)
(* Properties of a call of plane_loader.                                   *)
(***************************************************************************)
NoProfile == call.aircraft_data = None
MissingMaximum == call.max_payload = None \/ call.max_pax = None
Ended == pc \in {"done", "raised"}
SharedRankedId == \E id \in RankedIds : ~OccursOnce(id)

\* PlaneLoadingError is raised exactly when there is no aircraft profile and
\* a maximum is missing, and then nothing is ranked, loaded or returned; a
\* pass is at a ranked job or past the last one
RaisesWithoutCapacity ==
  /\ pc # "plane_loader" =>
       (raised = "PlaneLoadingError" <=> (NoProfile /\ MissingMaximum))
  /\ raised = "PlaneLoadingError" =>
       /\ pc = "raised"
       /\ assignment_values = Unbound
       /\ assignment_ids = Unbound
       /\ total_value = 0
  /\ pc = "load_assignments" => idx \in 1..(Len(assignment_values) + 1)

\* C12, as stated: plane_loader raises PlaneLoadingError exactly when no
\* aircraft profile is supplied and max_payload or max_pax is missing, then
\* without ranking, loading or a plan; in every other case the call ends by
\* returning a plan.
C12_AsStated ==
  /\ RaisesWithoutCapacity
  /\ (Ended /\ ~(NoProfile /\ MissingMaximum)) => Returned

\* C12, amended: plane_loader raises PlaneLoadingError exactly when no
\* aircraft profile is supplied and max_payload or max_pax is missing, then
\* without ranking, loading or a plan; in every other case the call ends by
\* returning a plan, unless a ranked identifier is shared by several jobs,
\* where it may end with a ValueError instead.
C12_RaisesOrReturns ==
  /\ RaisesWithoutCapacity
  /\ (Ended /\ ~(NoProfile /\ MissingMaximum)) =>
       \/ Returned
       \/ raised = "ValueError" /\ SharedRankedId

\* a call with max_payload but no max_pax, for jobs with value: it ended
\* with PlaneLoadingError
C12_Witness ==
  /\ pc = "raised"
  /\ raised = "PlaneLoadingError"
  /\ call.max_payload # None
  /\ call.max_pax = None
  /\ \E i \in InputRows : Valued(InputRow(i))

(***************************************************************************)
(* Properties of the loaded list.                                          *)
(***************************************************************************)
Loading == pc \in {"load_assignments", "done"}
PlanIndexes == 1..Len(assignment_ids)
RowPay(row) == row.Pay
LoadedPay == SeqSum([i \in PlanIndexes |-> PlanRow(i)], RowPay)
ScenarioCall(assignments) ==
  call = PlaneLoaderCall(assignments, call.aircraft_id, ScenarioCapacity)

\* C13: at every point of a loader pass and on return, the loaded list holds
\* each job at most once, its jobs are in the order of the ranking, and
\* total_value is the sum of the pays of the jobs in it; with 1000 kg and 4
\* seats, a 3-passenger job paying 300 (id 1) and a 500 kg job paying 1000
\* (id 2), the call returns the list [2, 1] and the total value 1300.
C13_PlanInRankOrder ==
  /\ Loading =>
       /\ \A i \in PlanIndexes : \A j \in PlanIndexes :
            i < j =>
              /\ assignment_ids[i] # assignment_ids[j]
              /\ RankOf(assignment_ids[i]) < RankOf(assignment_ids[j])
       /\ \A i \in PlanIndexes : assignment_ids[i] \in RankedIds
       /\ total_value = LoadedPay
  /\ (Returned /\ ScenarioCall(PassengersAndCargo)) =>
       /\ assignment_ids = <<2, 1>>
       /\ total_value = 1300

\* the returned plan of the scenario: both jobs, the cargo ranked and loaded
\* before the passengers that come first in the input
C13_Witness ==
  /\ Returned
  /\ ScenarioCall(PassengersAndCargo)
  /\ Len(assignment_ids) = 2
  /\ assignment_values[1].Id = 2
  /\ remaining_pax = 1

(***************************************************************************)
(* The VIP scenario: 1000 kg and 4 seats, a VIP job paying 5000 (id 1) of  *)
(* some amount and a 100 kg Trip-Only job paying 200 (id 2).               *)
(***************************************************************************)
VipScenario ==
  \E u \in Units : \E a \in VipAmounts : ScenarioCall(VipAndCargo(u, a))
VipJob == call.assignments[1]
\* the VIP job is within 4 seats and 1000 kg
VipJobFits ==
  IF VipJob.UnitType = "passengers" THEN VipJob.Amount <= 4 ELSE VipJob.Amount <= 1000
InPlan(id) == \E i \in PlanIndexes : assignment_ids[i] = id

\* C14, as stated: whatever the positive amount and the unit of the VIP job,
\* job 2 is never in the plan and plane_loader returns the plan [job 1] with
\* total value 5000.
C14_AsStated ==
  (Loading /\ VipScenario) =>
    /\ ~InPlan(2)
    /\ Returned => (assignment_ids = <<1>> /\ total_value = 5000)

\* C14, amended: when the VIP job is of at most 4 passengers or at most
\* 1000 kg, job 2 is never in the plan and plane_loader returns the plan
\* [job 1] with total value 5000, the pass ending at the VIP job; with a
\* larger amount the VIP job is never in the plan and plane_loader returns
\* the plan [job 2] with total value 200.
C14_VipAlone ==
  (Loading /\ VipScenario) =>
    IF VipJobFits
    THEN /\ ~InPlan(2)
         /\ Returned =>
              /\ assignment_ids = <<1>>
              /\ total_value = 5000
              /\ assignment_values[idx].Id = 1
    ELSE /\ ~InPlan(1)
         /\ Returned => (assignment_ids = <<2>> /\ total_value = 200)

\* the returned plan of a VIP job of 4 passengers, where job 2 is ranked
\* second and would fit the payload that is left
C14_Witness ==
  /\ Returned
  /\ VipScenario
  /\ VipJob.UnitType = "passengers" /\ VipJob.Amount = 4
  /\ assignment_ids = <<1>>
  /\ Len(assignment_values) = 2
  /\ ~IntGreater(100, remaining_payload)

(***************************************************************************)
(* Properties of the end of a pass.                                        *)
(***************************************************************************)
ExclusiveLoaded == \E row \in PlanRows : row.Type \in {VIP, ALL_IN}
RankedRow(id) == AssignmentById(call.assignments, id)
\* heavier than the payload that remains, or more passengers than the seats
\* that remain
DoesNotFit(row) ==
  \/ IntGreater(RowKg(row), remaining_payload)
  \/ row.UnitType = "passengers" /\ row.Amount > remaining_pax

JustRanked == pc = "ranked"
InputIds == {InputRow(i).Id : i \in InputRows}
SharedIds == {id \in InputIds : ~OccursOnce(id)}
EntriesOf(id) == {k \in 1..Len(assignment_values) : assignment_values[k].Id = id}
\* the last job with this identifier in input order
LastRowOf(id) ==
  InputRow(CHOOSE i \in RowsById(call.assignments, id) :
             \A j \in RowsById(call.assignments, id) : j <= i)
ValuedRowsOf(id) == {i \in RowsById(call.assignments, id) : Valued(InputRow(i))}
\* the last job with this identifier that has a positive payout and amount
LastValuedRowOf(id) ==
  InputRow(CHOOSE i \in ValuedRowsOf(id) : \A j \in ValuedRowsOf(id) : j <= i)

\* C16, as stated: for an identifier that several jobs share, the ranking
\* holds exactly one entry, and its density is the density of the last job
\* with that identifier, whatever the payouts and amounts of these jobs.
C16_AsStated ==
  JustRanked =>
    \A id \in SharedIds :
       /\ Cardinality(EntriesOf(id)) = 1
       /\ \A k \in EntriesOf(id) :
            /\ RowKg(LastRowOf(id)) > 0
            /\ ValueEq(assignment_values[k].value, Density(LastRowOf(id)))

\* C16, amended: for an identifier that several jobs share, the ranking holds
\* no entry when none of these jobs has a positive payout and amount, and
\* otherwise exactly one entry, whose density is the density of the last of
\* these jobs that has a positive payout and amount.
C16_LastValuedWins ==
  JustRanked =>
    \A id \in SharedIds :
       IF ValuedRowsOf(id) = {}
       THEN EntriesOf(id) = {}
       ELSE /\ Cardinality(EntriesOf(id)) = 1
            /\ \A k \in EntriesOf(id) :
                 ValueEq(assignment_values[k].value, Density(LastValuedRowOf(id)))

\* a ranking for an identifier shared by two jobs with value and of
\* different densities, next to a job with another identifier
C16_Witness ==
  /\ JustRanked
  /\ Len(assignment_values) = 2
  /\ \E id \in SharedIds :
       \E i \in ValuedRowsOf(id) : \E j \in ValuedRowsOf(id) :
          /\ i < j
          /\ ~ValueEq(Density(InputRow(i)), Density(InputRow(j)))

(***************************************************************************)
(* Properties of the running totals of a pass.                             *)
(***************************************************************************)
\* C17: at the start of every iteration of the loop (and when the pass has
\* ended), for a ranking made by order_assignment_by_value:
\* remaining_payload differs from the initial payload exactly when the
\* loaded list is not empty, remaining_payload is the initial payload minus
\* the weight of the loaded jobs, and remaining_pax is the initial seats
\* minus the passengers of the loaded jobs.
C17_PayloadChangedIffLoaded ==
  Loading =>
    /\ (remaining_payload # starting_payload) <=> (assignment_ids # <<>>)
    /\ remaining_payload = RealMinusInt(starting_payload, LoadedWeight)
    /\ remaining_pax = starting_pax - LoadedPax

\* the start of an iteration at an exclusive job that would fit the payload
\* and the seats that remain, after a load of passengers
C17_Witness ==
  /\ InLoop
  /\ CurrentUnique
  /\ ExclusiveLoad(Current)
  /\ LoadedPax > 0
  /\ remaining_payload # starting_payload
  /\ ~IntGreater(RowKg(Current), remaining_payload)
  /\ RowPax(Current) <= remaining_pax

====
